---------------------------- MODULE Spec2Model ----------------------------
(***************************************************************************)
(* p_laszip: the MPI-parallel LAS <-> LAZ conversion path of               *)
(* src/src/laszip.cpp (main, lines 800-1010).  Every rank runs the same    *)
(* code on the same input; the model has one program counter per rank and  *)
(* one action per statement group between two MPI calls.                   *)
(***************************************************************************)
EXTENDS Integers, Naturals, Sequences, FiniteSets, TLC

(* ------------------------------ bounds -------------------------------- *)
MaxPoints == 7
MaxChunkSize == 3
MaxProcs == 3
\* a truncated input (the file ends before the point count of its header) is
\* tried for inputs of up to MaxShortPoints points
MaxShortPoints == 2
\* an input of a point format above 5 is tried for up to MaxCompatPoints points
MaxCompatPoints == 2
\* and for up to MaxCompatProcs processes
MaxCompatProcs == 1
\* bytes by which the coder's output for one point may differ when the point
\* is handed to it in another layout
MaxDrift == 1
\* an MPI library that does not buffer a standard send is tried for inputs of
\* up to MaxRendezvousPoints points
MaxRendezvousPoints == 1

(* ------------------- sizes of what the writer emits ------------------- *)
\* stream position right after the writer was opened (header, VLRs and,
\* for LAZ, the chunk table pointer were emitted)
HeaderEnd == 2
\* length of one uncompressed point record
RecLen == 2

Ranks(P) == 0 .. (P - 1)

RECURSIVE SumSeq(_, _)
SumSeq(q, n) == IF n = 0 THEN 0 ELSE SumSeq(q, n - 1) + q[n]

\* the points i .. j - 1 in order
Range(i, j) == [n \in 1 .. (j - i) |-> i + n - 1]

(* ----------------------------- partitioner ---------------------------- *)
\* faulty variant: the deal never counts down left_over_chunks
RECURSIVE DealChunks_NoCountDown(_, _, _, _)
DealChunks_NoCountDown(i, P, process_chunks, left_over_chunks) ==
  IF i >= P THEN << >>
  ELSE IF left_over_chunks # 0
       THEN <<process_chunks + 1>> \o DealChunks_NoCountDown(i + 1, P, process_chunks, left_over_chunks)
       ELSE <<process_chunks>> \o DealChunks_NoCountDown(i + 1, P, process_chunks, left_over_chunks)

\* the loop of lines 823-831: deal process_chunks to every rank and one of
\* the left_over_chunks to each rank while some are left
RECURSIVE DealChunks(_, _, _, _)
DealChunks(i, P, process_chunks, left_over_chunks) ==
  IF i >= P THEN << >>
  ELSE IF left_over_chunks # 0
       THEN <<process_chunks + 1>> \o DealChunks(i + 1, P, process_chunks, left_over_chunks - 1)
       ELSE <<process_chunks>> \o DealChunks(i + 1, P, process_chunks, left_over_chunks)

\* all_process_chunks[] as a sequence (index rank + 1)
AllProcessChunks(N, C, P) ==
  LET chunks == N \div C
  IN  DealChunks(0, P, chunks \div P, chunks % P)

\* the loop of lines 833-838: all_point_start[] from the running sum
RECURSIVE PointStarts(_, _, _, _, _)
PointStarts(i, P, apc, C, cur_point_start) ==
  IF i >= P THEN << >>
  ELSE <<cur_point_start>> \o PointStarts(i + 1, P, apc, C, cur_point_start + apc[i + 1] * C)

AllPointStart(N, C, P) == PointStarts(0, P, AllProcessChunks(N, C, P), C, 0)

\* faulty variant: the start ignores the extra chunks dealt to the lower ranks
LazPointStart_NoExtras(N, C, P, rank) == rank * ((N \div C) \div P) * C

\* lines 840-846
LazPointStart(N, C, P, rank) == AllPointStart(N, C, P)[rank + 1]

\* faulty variant: the left over points go to the first rank
LazPointEnd_LeftOverFirst(N, C, P, rank) ==
  LET process_points == AllProcessChunks(N, C, P)[rank + 1] * C
      point_end == LazPointStart(N, C, P, rank) + process_points
  IN  IF rank = 0 THEN point_end + (N % C) ELSE point_end

LazPointEnd(N, C, P, rank) ==
  LET process_points == AllProcessChunks(N, C, P)[rank + 1] * C
      left_over_points == N % C
      point_end == LazPointStart(N, C, P, rank) + process_points
  IN  IF rank = P - 1 THEN point_end + left_over_points ELSE point_end

\* lines 852-856
LasPointStart(N, P, rank) == rank * (N \div P)

\* faulty variant: the last rank does not take the left over points
LasPointEnd_NoLeftOver(N, P, rank) == LasPointStart(N, P, rank) + (N \div P)

LasPointEnd(N, P, rank) ==
  LET left_over_points == N % P
      process_points == N \div P
      point_end == LasPointStart(N, P, rank) + process_points
  IN  IF rank = P - 1 THEN point_end + left_over_points ELSE point_end

Unset == -1

(* ------------------------- reader collaborator ------------------------ *)
\* LASreader::read_point(): a point is returned while the reader's position
\* is below the number of points of the file
ReadOk(pos, N) == pos < N

\* the point read_point() returns at position pos of the input
PointAt(in, pos) == in[pos + 1]

(* ------------------------- writer collaborator ------------------------ *)
\* bytes the entropy coder emits for point i when it is not the first point
\* of its chunk (the first one is stored raw, RecLen bytes)
CompBytes(i) == 1 + ((i \div 2 + i) % 2)

\* bytes enc->done() flushes for a chunk that holds chunk_count points
DoneBytes(chunk_count) == 1 + (chunk_count % 2)

Cells(kind, pt, n) == [k \in 1 .. n |-> [kind |-> kind, pt |-> pt, k |-> k, last |-> (k = n)]]

\* LASwriteOpener::open(): a fresh writer whose stream stands at HeaderEnd
WriterOpen(nil) ==
  [nil |-> nil, pos |-> HeaderEnd, p_count |-> 0, chunk_count |-> 0,
   started |-> FALSE, chunk_start_position |-> HeaderEnd,
   chunk_table_start_position |-> HeaderEnd - 1,
   number_chunks |-> 0, chunk_bytes |-> << >>]

\* LASwritePoint::add_chunk_to_table()
AddChunkToTable(w) ==
  [w EXCEPT !.chunk_bytes = Append(@, w.pos - w.chunk_start_position),
            !.chunk_start_position = w.pos,
            !.number_chunks = @ + 1]

\* enc->done(): the coder flushes what terminates the chunk
EncDone(w) == [w EXCEPT !.pos = @ + DoneBytes(w.chunk_count)]

\* the chunk is closed inside write_point when it already holds C points
ClosesChunk(w, C, compress) == compress /\ w.started /\ w.chunk_count = C

\* the cells write_point(i) emits, in stream order
WritePointCells(w, i, C, compress) ==
  IF ~compress THEN Cells("rec", i, RecLen)
  ELSE IF ClosesChunk(w, C, compress)
       THEN Cells("term", i - 1, DoneBytes(w.chunk_count)) \o Cells("raw", i, RecLen)
       ELSE IF ~w.started THEN Cells("raw", i, RecLen)
            ELSE Cells("cmp", i, CompBytes(i))

\* LASwriter::write_point() / LASwritePoint::write()
WritePoint(w, i, C, compress) ==
  IF ~compress THEN [w EXCEPT !.pos = @ + RecLen, !.p_count = @ + 1]
  ELSE IF ClosesChunk(w, C, compress)
       THEN LET c == AddChunkToTable(EncDone(w))
            IN  [c EXCEPT !.pos = @ + RecLen, !.p_count = @ + 1,
                          !.chunk_count = 1, !.started = TRUE]
       ELSE IF ~w.started
            THEN [w EXCEPT !.pos = @ + RecLen, !.p_count = @ + 1,
                           !.chunk_count = 1, !.started = TRUE]
            ELSE [w EXCEPT !.pos = @ + CompBytes(i), !.p_count = @ + 1,
                           !.chunk_count = @ + 1]

\* the output file after the cells were put at offset pos
PutCells(f, pos, cells) ==
  [o \in (DOMAIN f) \cup (pos .. (pos + Len(cells) - 1)) |->
     IF o >= pos /\ o < pos + Len(cells) THEN cells[o - pos + 1] ELSE f[o]]

\* the ranks that wrote each offset, after rank r wrote n cells at pos
PutOwner(wb, r, pos, n) ==
  [o \in (DOMAIN wb) \cup (pos .. (pos + n - 1)) |->
     IF o >= pos /\ o < pos + n
     THEN (IF o \in DOMAIN wb THEN wb[o] ELSE {}) \cup {r}
     ELSE wb[o]]

\* the header region right after LASwriteOpener::open(): for LAZ its last
\* cell is the chunk table pointer, which holds its own position until
\* write_chunk_table() patches it
HeaderFile(compress) ==
  [o \in 0 .. (HeaderEnd - 1) |->
     IF compress /\ o = HeaderEnd - 1
     THEN [kind |-> "ptr", pt |-> HeaderEnd - 1, k |-> 1, last |-> TRUE]
     ELSE [kind |-> "hdr", pt |-> Unset, k |-> o + 1, last |-> (o = HeaderEnd - 1)]]

\* bytes of a chunk table of n entries
TableBytes(n) == 1 + n

\* LASwritePoint::write_chunk_table(): the stream position is stored at
\* chunk_table_start_position, the table is emitted at the stream position
WriteChunkTableFile(f, w) ==
  PutCells(PutCells(f, w.chunk_table_start_position,
                    <<[kind |-> "ptr", pt |-> w.pos, k |-> 1, last |-> TRUE]>>),
           w.pos, Cells("tbl", Unset, TableBytes(w.number_chunks)))

\* who wrote: the rank and the part of main it was in
Who(r, pass) == [rank |-> r, pass |-> pass]

\* the header region as every rank of rs leaves it when it opens the output
HeaderOwners(rs) == [o \in 0 .. (HeaderEnd - 1) |-> {Who(r, "open") : r \in rs}]

(* -------------------------------- state ------------------------------- *)
VARIABLES
  npoints,                  \* lasreader->npoints
  chunk_size,               \* laswriteopener.get_chunk_size()
  process_count,            \* MPI_Comm_size
  laz_in,                   \* lasreader->header.laszip != NULL (LAZ -> LAS)
  input,                    \* the points the input file holds, in order
  compatible_down,          \* lasreader->header.point_data_format > 5
  conversion,               \* 1, or 2 for the conversion back of the output
  rendezvous,               \* MPI_Send returns only once its receive is posted
  pc,                       \* per rank: where it stands in main
  point_start, point_end,   \* per rank
  reader,                   \* per rank: index of the next point read_point returns
  writer,                   \* per rank: the laswriter in use
  sized, final,             \* per rank: the points written in each pass
  point_start_offset,       \* per rank
  point_bytes_written,      \* per rank
  all_point_bytes_written,  \* per rank: the all-gathered array
  write_point_offset,       \* per rank
  file,                     \* the real output: offset -> cell
  written_by,               \* offset -> the ranks that wrote it
  gathered,                 \* MPI_Gather: what every rank contributed
  number_chunks,            \* rank P-1: the gathered array
  chunk_bytes,              \* rank P-1: the receive buffer
  recv_i,                   \* rank P-1: loop index of the receive loop
  msgs,                     \* point-to-point messages in flight
  table_pos,                \* rank P-1: chunk_table_start_position received
  table,                    \* what write_chunk_table() was called with
  log                       \* per rank: the MPI calls and file operations done

vars == <<npoints, chunk_size, process_count, laz_in, input, compatible_down,
          conversion, rendezvous, pc, point_start, point_end,
          reader, writer, sized, final, point_start_offset, point_bytes_written,
          all_point_bytes_written, write_point_offset, file, written_by, gathered,
          number_chunks, chunk_bytes, recv_i, msgs, table_pos, table, log>>

output == <<file, written_by>>
config == <<npoints, chunk_size, process_count, laz_in, input, compatible_down, conversion,
            rendezvous>>
exchange == <<gathered, number_chunks, chunk_bytes, recv_i, msgs, table_pos, table>>

NoTable == [written |-> FALSE]

Rank == Ranks(process_count)
LastRank == process_count - 1
Compress == ~laz_in

\* the statements of main in program order; "exit" is the end of the path
PcOrder ==
  <<"partition", "size_begin", "size_loop", "barrier873", "size_done",
    "barrier879", "tell881", "barrier886", "barrier888", "allgather",
    "barrier899", "open", "barrier902", "offset", "final_loop", "barrier926",
    "final_done", "barrier932", "gather", "send_chunk_bytes",
    "recv_chunk_bytes", "barrier973", "send_table_pos", "recv_table_pos",
    "barrier982", "write_chunk_table", "exit">>

At(l) == CHOOSE i \in 1 .. Len(PcOrder) : PcOrder[i] = l

\* a rank that crashed never reaches anything
Reached(r, l) == pc[r] # "crashed" /\ At(pc[r]) >= At(l)

\* lines 560-589: only the last branch asks for the nil writer; an input of
\* a point format above 5 gets a LASwriterCompatibleDown on the real output
FirstWriterNil(above_5) == ~above_5

Init ==
  /\ npoints \in 0 .. MaxPoints
  /\ chunk_size \in 1 .. MaxChunkSize
  /\ process_count \in 1 .. MaxProcs
  /\ laz_in \in BOOLEAN
  /\ input \in {Range(0, npoints)} \cup
              (IF npoints \in 1 .. MaxShortPoints THEN {Range(0, npoints - 1)} ELSE {})
  /\ compatible_down \in
       (IF ~laz_in /\ npoints <= MaxCompatPoints /\ process_count <= MaxCompatProcs
           /\ Len(input) = npoints
        THEN BOOLEAN ELSE {FALSE})
  /\ conversion = 1
  /\ rendezvous \in
       (IF ~laz_in /\ ~compatible_down /\ npoints <= MaxRendezvousPoints /\ Len(input) = npoints
        THEN BOOLEAN ELSE {FALSE})
  /\ pc = [r \in Rank |-> "partition"]
  /\ point_start = [r \in Rank |-> Unset]
  /\ point_end = [r \in Rank |-> Unset]
  /\ reader = [r \in Rank |-> 0]
  /\ writer = [r \in Rank |-> WriterOpen(FirstWriterNil(compatible_down))]
  /\ sized = [r \in Rank |-> << >>]
  /\ final = [r \in Rank |-> << >>]
  /\ point_start_offset = [r \in Rank |-> Unset]
  /\ point_bytes_written = [r \in Rank |-> Unset]
  /\ all_point_bytes_written = [r \in Rank |-> << >>]
  /\ write_point_offset = [r \in Rank |-> Unset]
  /\ file = IF compatible_down THEN HeaderFile(~laz_in) ELSE << >>
  /\ written_by = IF compatible_down THEN HeaderOwners(Rank) ELSE << >>
  /\ gathered = [r \in Rank |-> Unset]
  /\ number_chunks = << >>
  /\ chunk_bytes = << >>
  /\ recv_i = 0
  /\ msgs = {}
  /\ table_pos = 0
  /\ table = NoTable
  /\ log = [r \in Rank |-> << >>]

(* ------------------- reading the output file back --------------------- *)
\* offsets that hold the first byte of a stored point
PointCells == {o \in DOMAIN file : file[o].k = 1 /\ file[o].kind \in {"raw", "cmp", "rec"}}

\* the offset after the last byte that is not of the chunk table
EndOfFile ==
  LET used == {o \in DOMAIN file : file[o].kind # "tbl"}
  IN  IF used = {} THEN 0 ELSE 1 + (CHOOSE o \in used : \A q \in used : q <= o)

\* offsets where a chunk ends: right after the last byte of a termination
ChunkEnds == {o + 1 : o \in {q \in DOMAIN file : file[q].kind = "term" /\ file[q].last}}

\* offsets where a chunk starts: after the header or at the previous chunk's end
ChunkStarts == ({HeaderEnd} \cup ChunkEnds) \ {EndOfFile}

\* the points stored below offset o, in increasing file offset
RECURSIVE PointsBelow(_)
PointsBelow(o) ==
  IF o = 0 THEN << >>
  ELSE PointsBelow(o - 1) \o (IF (o - 1) \in PointCells THEN <<file[o - 1].pt>> ELSE << >>)

PointsInFile == PointsBelow(EndOfFile)

\* the LAZ reader: chunk j of the table starts after the bytes of the chunks
\* before it and holds the points stored in its bytes
LazChunkStart(j) == HeaderEnd + SumSeq(table.chunk_bytes, j - 1)

LazChunkPoints(j) ==
  LET lo == PointsBelow(LazChunkStart(j))
      hi == PointsBelow(LazChunkStart(j) + table.chunk_bytes[j])
  IN  SubSeq(hi, Len(lo) + 1, Len(hi))

\* the LAZ reader finds point i in chunk i / C at place i mod C
LazHasPoint(i) ==
  /\ (i \div chunk_size) + 1 <= table.number_chunks
  /\ (i % chunk_size) + 1 <= Len(LazChunkPoints((i \div chunk_size) + 1))

LazPoint(i) == LazChunkPoints((i \div chunk_size) + 1)[(i % chunk_size) + 1]

\* the reader can open the file: the pointer of the header leads to the
\* chunk table and every point of the header's count is found
LazReadable ==
  /\ table.written
  /\ (HeaderEnd - 1) \in DOMAIN file
  /\ file[HeaderEnd - 1].kind = "ptr"
  /\ file[HeaderEnd - 1].pt = table.pos
  /\ Len(table.chunk_bytes) = table.number_chunks
  /\ \A i \in 0 .. (npoints - 1) : LazHasPoint(i)

LazPoints == [n \in 1 .. npoints |-> LazPoint(n - 1)]

(* ------------------------------- actions ------------------------------ *)
\* the writer's byte stream: the nil stream counts the bytes and drops them
Emit(r, w, cells, pass) ==
  IF w.nil THEN UNCHANGED output
  ELSE /\ file' = PutCells(file, w.pos, cells)
       /\ written_by' = PutOwner(written_by, Who(r, pass), w.pos, Len(cells))

Logged(r, event) == log' = [log EXCEPT ![r] = Append(@, event)]

\* lines 813-858
Partition(r) ==
  /\ pc[r] = "partition"
  /\ point_start' = [point_start EXCEPT ![r] =
       IF laz_in THEN LasPointStart(npoints, process_count, r)
       ELSE LazPointStart(npoints, chunk_size, process_count, r)]
  /\ point_end' = [point_end EXCEPT ![r] =
       IF laz_in THEN LasPointEnd(npoints, process_count, r)
       ELSE LazPointEnd(npoints, chunk_size, process_count, r)]
  /\ pc' = [pc EXCEPT ![r] = "size_begin"]
  /\ UNCHANGED <<config, log, reader, writer, sized, final, point_start_offset,
                 point_bytes_written, all_point_bytes_written,
                 write_point_offset, output, exchange>>

\* faulty variant: the reader is not moved to the start of the range
SeekReader_FromStart(start) == 0

\* lines 863 and 916: lasreader->seek(point_start)
SeekReader(start) == start

\* lines 862-863
SizeBegin(r) ==
  /\ pc[r] = "size_begin"
  /\ point_start_offset' = [point_start_offset EXCEPT ![r] = writer[r].pos]
  /\ reader' = [reader EXCEPT ![r] = SeekReader(point_start[r])]
  /\ pc' = [pc EXCEPT ![r] = "size_loop"]
  /\ UNCHANGED <<config, log, point_start, point_end, writer, sized, final,
                 point_bytes_written, all_point_bytes_written,
                 write_point_offset, output, exchange>>

\* the loop statement of lines 865-872 and 918-925: where the rank stands
\* after one evaluation of the loop condition and, if a point was read, of
\* the body with its break test
LoopLeaves(r, w) ==
  \/ ~ReadOk(reader[r], Len(input))
  \/ WritePoint(w, PointAt(input, reader[r]), chunk_size, Compress).p_count
       = point_end[r] - point_start[r]

\* lines 865-872, one iteration
SizeLoop(r) ==
  /\ pc[r] = "size_loop"
  /\ IF ReadOk(reader[r], Len(input))
     THEN /\ writer' = [writer EXCEPT ![r] =
                WritePoint(@, PointAt(input, reader[r]), chunk_size, Compress)]
          /\ Emit(r, writer[r],
                  WritePointCells(writer[r], PointAt(input, reader[r]), chunk_size, Compress),
                  "sizing")
          /\ sized' = [sized EXCEPT ![r] = Append(@, reader[r])]
          /\ reader' = [reader EXCEPT ![r] = @ + 1]
     ELSE UNCHANGED <<writer, output, sized, reader>>
  /\ pc' = [pc EXCEPT ![r] = IF LoopLeaves(r, writer[r]) THEN "barrier873" ELSE "size_loop"]
  /\ UNCHANGED <<config, log, point_start, point_end, final, point_start_offset,
                 point_bytes_written, all_point_bytes_written,
                 write_point_offset, exchange>>

\* faulty variant: the exchange after the final pass runs in both directions
AfterBarrier_AlwaysGather(l) ==
  CASE l = "barrier873" -> "size_done"
    [] l = "barrier879" -> "tell881"
    [] l = "barrier886" -> "barrier888"
    [] l = "barrier888" -> "allgather"
    [] l = "barrier899" -> "open"
    [] l = "barrier902" -> "offset"
    [] l = "barrier926" -> "final_done"
    [] l = "barrier932" -> "gather"
    [] l = "barrier973" -> "send_table_pos"
    [] l = "barrier982" -> "write_chunk_table"

\* faulty variant: after the final pass the gather is left out
AfterBarrier_NoGather(l) ==
  CASE l = "barrier873" -> "size_done"
    [] l = "barrier879" -> "tell881"
    [] l = "barrier886" -> "barrier888"
    [] l = "barrier888" -> "allgather"
    [] l = "barrier899" -> "open"
    [] l = "barrier902" -> "offset"
    [] l = "barrier926" -> "final_done"
    [] l = "barrier932" -> IF laz_in THEN "exit" ELSE "send_chunk_bytes"
    [] l = "barrier973" -> "send_table_pos"
    [] l = "barrier982" -> "write_chunk_table"

\* where a rank goes when it leaves a barrier
AfterBarrier(l) ==
  CASE l = "barrier873" -> "size_done"
    [] l = "barrier879" -> "tell881"
    [] l = "barrier886" -> "barrier888"
    [] l = "barrier888" -> "allgather"
    [] l = "barrier899" -> "open"
    [] l = "barrier902" -> "offset"
    [] l = "barrier926" -> "final_done"
    [] l = "barrier932" -> IF laz_in THEN "exit" ELSE "gather"   \* line 934
    [] l = "barrier973" -> "send_table_pos"
    [] l = "barrier982" -> "write_chunk_table"

Barriers == {"barrier873", "barrier879", "barrier886", "barrier888", "barrier899",
             "barrier902", "barrier926", "barrier932", "barrier973", "barrier982"}

\* faulty variant: a rank in a barrier waits for the first rank only
BarrierOpen_FirstRankOnly(l) == Reached(0, l)

\* faulty variant: a rank leaves a barrier without waiting for the others
BarrierOpen_NoWait(l) == TRUE

\* MPI_Barrier: a rank leaves once every rank has entered
BarrierOpen(l) == \A s \in Rank : Reached(s, l)

Barrier(r) ==
  /\ pc[r] \in Barriers
  /\ BarrierOpen(pc[r])
  /\ pc' = [pc EXCEPT ![r] = AfterBarrier(pc[r])]
  /\ Logged(r, "barrier")
  /\ UNCHANGED <<config, point_start, point_end, reader, writer, sized, final,
                 point_start_offset, point_bytes_written, all_point_bytes_written,
                 write_point_offset, output, exchange>>

\* faulty variant: the open chunk is never terminated
TerminatesChunk_Never == FALSE

\* lines 874-878 and 927-931: the chunk is terminated for LAS -> LAZ only
TerminatesChunk == ~laz_in

\* enc->done() on a coder that never encoded a point (an empty range that
\* starts at the end of the input) works on a coder that was never started:
\* the call either crashes the rank or flushes as for an empty chunk
MayCrash(w) == ~w.started

\* lines 874-878 (sizing pass)
SizeDone(r) ==
  /\ pc[r] = "size_done"
  /\ IF ~TerminatesChunk
     THEN /\ pc' = [pc EXCEPT ![r] = "barrier879"]
          /\ UNCHANGED <<writer, output>>
     ELSE \/ /\ writer' = [writer EXCEPT ![r] = AddChunkToTable(EncDone(@))]
             /\ Emit(r, writer[r],
                     Cells("term", reader[r] - 1, DoneBytes(writer[r].chunk_count)), "sizing")
             /\ pc' = [pc EXCEPT ![r] = "barrier879"]
          \/ /\ MayCrash(writer[r])
             /\ pc' = [pc EXCEPT ![r] = "crashed"]
             /\ UNCHANGED <<writer, output>>
  /\ UNCHANGED <<config, log, point_start, point_end, reader, sized, final,
                 point_start_offset, point_bytes_written, all_point_bytes_written,
                 write_point_offset, exchange>>

\* faulty variant: the start offset is not subtracted
PointBytesWritten_NoStart(point_end_offset, start_offset) == point_end_offset

\* lines 881-882
PointBytesWritten(point_end_offset, start_offset) == point_end_offset - start_offset

Tell(r) ==
  /\ pc[r] = "tell881"
  /\ point_bytes_written' = [point_bytes_written EXCEPT ![r] =
       PointBytesWritten(writer[r].pos, point_start_offset[r])]
  /\ pc' = [pc EXCEPT ![r] = "barrier886"]
  /\ UNCHANGED <<config, log, point_start, point_end, reader, writer, sized, final,
                 point_start_offset, all_point_bytes_written,
                 write_point_offset, output, exchange>>

\* lines 890-891: MPI_Allgather returns on a rank once every rank contributed
Allgather(r) ==
  /\ pc[r] = "allgather"
  /\ \A s \in Rank : Reached(s, "allgather")
  /\ all_point_bytes_written' = [all_point_bytes_written EXCEPT ![r] =
       [i \in 1 .. process_count |-> point_bytes_written[i - 1]]]
  /\ pc' = [pc EXCEPT ![r] = "barrier899"]
  /\ Logged(r, "allgather")
  /\ UNCHANGED <<config, point_start, point_end, reader, writer, sized, final,
                 point_start_offset, point_bytes_written,
                 write_point_offset, output, exchange>>

\* lines 900-901: the real output is created and the header emitted
Open(r) ==
  /\ pc[r] = "open"
  /\ writer' = [writer EXCEPT ![r] = WriterOpen(FALSE)]
  /\ file' = HeaderFile(Compress)
  /\ written_by' = PutOwner(written_by, Who(r, "open"), 0, HeaderEnd)
  /\ pc' = [pc EXCEPT ![r] = "barrier902"]
  /\ Logged(r, "open")
  /\ UNCHANGED <<config, point_start, point_end, reader, sized, final,
                 point_start_offset, point_bytes_written, all_point_bytes_written,
                 write_point_offset, exchange>>

\* faulty variant: the byte counts of the lower ranks are not added
WritePointOffset_NoSum(tell, all_bytes, rank) == tell

\* faulty variant: the loop runs up to and including the own rank
RECURSIVE WritePointOffset_Inclusive(_, _, _)
WritePointOffset_Inclusive(tell, all_bytes, rank) ==
  IF rank = 0 THEN tell + all_bytes[1]
  ELSE WritePointOffset_Inclusive(tell, all_bytes, rank - 1) + all_bytes[rank + 1]

\* lines 905-909: the loop adds the byte counts of the lower ranks
RECURSIVE WritePointOffset(_, _, _)
WritePointOffset(tell, all_bytes, rank) ==
  IF rank = 0 THEN tell
  ELSE WritePointOffset(tell, all_bytes, rank - 1) + all_bytes[rank]

\* faulty variant: the first chunk of every rank is measured from the header
SeekWriter_FromHeaderEnd(w, offset) ==
  [w EXCEPT !.pos = offset, !.chunk_start_position = HeaderEnd]

\* faulty variant: chunk_start_position is not reset after the seek
SeekWriter_NoReset(w, offset) == [w EXCEPT !.pos = offset]

\* lines 911-915: seek, and for LAS -> LAZ reset of chunk_start_position
SeekWriter(w, offset) ==
  IF laz_in THEN [w EXCEPT !.pos = offset]
  ELSE [w EXCEPT !.pos = offset, !.chunk_start_position = offset]

\* lines 905-916
Offset(r) ==
  /\ pc[r] = "offset"
  /\ LET off == WritePointOffset(writer[r].pos, all_point_bytes_written[r], r)
     IN  /\ write_point_offset' = [write_point_offset EXCEPT ![r] = off]
         /\ writer' = [writer EXCEPT ![r] = SeekWriter(@, off)]
  /\ reader' = [reader EXCEPT ![r] = SeekReader(point_start[r])]
  /\ pc' = [pc EXCEPT ![r] = "final_loop"]
  /\ Logged(r, "seek")
  /\ UNCHANGED <<config, point_start, point_end, sized, final,
                 point_start_offset, point_bytes_written, all_point_bytes_written,
                 output, exchange>>

\* for an input of a point format above 5 the sizing pass encodes with the
\* LASwriterCompatibleDown of line 560, which hands the coder the converted
\* point, and the final pass with the plain writer of line 901, which hands
\* it the point as read: an entropy-coded point may then take up to MaxDrift
\* bytes more; a point stored raw has the record length of the header
LayoutDrift(w) ==
  IF compatible_down /\ Compress /\ w.started /\ ~ClosesChunk(w, chunk_size, Compress)
  THEN 0 .. MaxDrift ELSE {0}

\* the writer and the cells of a point that took extra bytes more
Drifted(w, extra) == [w EXCEPT !.pos = @ + extra]
DriftCells(pt, extra) == [k \in 1 .. extra |-> [kind |-> "pad", pt |-> pt, k |-> k, last |-> (k = extra)]]

\* lines 918-925, one iteration
FinalLoop(r) ==
  /\ pc[r] = "final_loop"
  /\ IF ReadOk(reader[r], Len(input))
     THEN /\ \E extra \in LayoutDrift(writer[r]) :
               /\ writer' = [writer EXCEPT ![r] =
                     Drifted(WritePoint(@, PointAt(input, reader[r]), chunk_size, Compress), extra)]
               /\ Emit(r, writer[r],
                       WritePointCells(writer[r], PointAt(input, reader[r]), chunk_size, Compress)
                         \o DriftCells(PointAt(input, reader[r]), extra),
                       "final")
          /\ final' = [final EXCEPT ![r] = Append(@, reader[r])]
          /\ reader' = [reader EXCEPT ![r] = @ + 1]
     ELSE UNCHANGED <<writer, file, written_by, final, reader>>
  /\ pc' = [pc EXCEPT ![r] = IF LoopLeaves(r, writer[r]) THEN "barrier926" ELSE "final_loop"]
  /\ UNCHANGED <<config, log, point_start, point_end, sized, point_start_offset,
                 point_bytes_written, all_point_bytes_written,
                 write_point_offset, exchange>>

\* lines 927-931 (final pass)
FinalDone(r) ==
  /\ pc[r] = "final_done"
  /\ IF ~TerminatesChunk
     THEN /\ pc' = [pc EXCEPT ![r] = "barrier932"]
          /\ UNCHANGED <<writer, output>>
     ELSE \/ /\ writer' = [writer EXCEPT ![r] = AddChunkToTable(EncDone(@))]
             /\ Emit(r, writer[r],
                     Cells("term", reader[r] - 1, DoneBytes(writer[r].chunk_count)), "final")
             /\ pc' = [pc EXCEPT ![r] = "barrier932"]
          \/ /\ MayCrash(writer[r])
             /\ pc' = [pc EXCEPT ![r] = "crashed"]
             /\ UNCHANGED <<writer, output>>
  /\ UNCHANGED <<config, log, point_start, point_end, reader, sized, final,
                 point_start_offset, point_bytes_written, all_point_bytes_written,
                 write_point_offset, exchange>>

\* lines 941-948: the loop on rank P-1 that adds up the gathered counts
RECURSIVE NumberChunksTotal(_, _)
NumberChunksTotal(nc, n) ==
  IF n = 0 THEN 0 ELSE NumberChunksTotal(nc, n - 1) + nc[n]

\* faulty variant: the running sum is stored after the rank's own count was added
RECURSIVE NumberChunksOffset_Inclusive(_, _)
NumberChunksOffset_Inclusive(nc, i) ==
  IF i = 0 THEN nc[1] ELSE NumberChunksOffset_Inclusive(nc, i - 1) + nc[i + 1]

\* lines 955-961: number_chunks_offsets[i], the running sum before rank i
\* (the other ranks run the loop over an array MPI_Gather left unfilled and
\* never use the result, so only rank P-1's offsets are state)
RECURSIVE NumberChunksOffset(_, _)
NumberChunksOffset(nc, i) ==
  IF i = 0 THEN 0 ELSE NumberChunksOffset(nc, i - 1) + nc[i]

\* lines 939-950: MPI_Gather to rank P-1, which then sizes its buffer
Gather(r) ==
  /\ pc[r] = "gather"
  /\ gathered' = [gathered EXCEPT ![r] = writer[r].number_chunks]
  /\ IF r = LastRank
     THEN /\ \A s \in Rank \ {r} : gathered[s] # Unset
          /\ number_chunks' = [i \in 1 .. process_count |-> gathered'[i - 1]]
          /\ chunk_bytes' = [j \in 1 .. NumberChunksTotal(number_chunks', process_count) |-> Unset]
     ELSE UNCHANGED <<number_chunks, chunk_bytes>>
  /\ pc' = [pc EXCEPT ![r] = "send_chunk_bytes"]
  /\ Logged(r, "gather")
  /\ UNCHANGED <<config, point_start, point_end, reader, writer, sized, final,
                 point_start_offset, point_bytes_written, all_point_bytes_written,
                 write_point_offset, output, recv_i, msgs, table_pos, table>>

\* faulty variant: the receive loop names the rank after i
RecvSource_Next(i) == i + 1

\* line 969: the rank the i-th MPI_Recv names as its source
RecvSource(i) == i

\* a standard-mode MPI_Send returns when the library has buffered the
\* message or, if it does not buffer, when the matching receive is posted
SendCompletes(posted) == ~rendezvous \/ posted

\* line 953: MPI_Send of the rank's chunk_bytes to rank P-1, tag 2
SendChunkBytes(r) ==
  /\ pc[r] = "send_chunk_bytes"
  /\ SendCompletes(pc[LastRank] = "recv_chunk_bytes" /\ RecvSource(recv_i) = r)
  /\ msgs' = msgs \cup {[src |-> r, dst |-> LastRank, tag |-> 2,
                         data |-> SubSeq(writer[r].chunk_bytes, 1, writer[r].number_chunks)]}
  /\ pc' = [pc EXCEPT ![r] = IF r = LastRank THEN "recv_chunk_bytes" ELSE "barrier973"]
  /\ Logged(r, "send_chunk_bytes")
  /\ UNCHANGED <<config, point_start, point_end, reader, writer, sized, final,
                 point_start_offset, point_bytes_written, all_point_bytes_written,
                 write_point_offset, output, gathered, number_chunks, chunk_bytes,
                 recv_i, table_pos, table>>

\* the receive buffer after data was stored at offset off
StoreAt(buf, off, data) ==
  [j \in 1 .. Len(buf) |->
     IF j > off /\ j <= off + Len(data) THEN data[j - off] ELSE buf[j]]

\* lines 964-972, one iteration: MPI_Recv from rank recv_i, tag 2
RecvChunkBytes(r) ==
  /\ pc[r] = "recv_chunk_bytes"
  /\ r = LastRank
  /\ \E m \in msgs :
       /\ m.src = RecvSource(recv_i) /\ m.dst = r /\ m.tag = 2
       /\ chunk_bytes' = StoreAt(chunk_bytes, NumberChunksOffset(number_chunks, recv_i), m.data)
       /\ msgs' = msgs \ {m}
  /\ recv_i' = recv_i + 1
  /\ pc' = [pc EXCEPT ![r] = IF recv_i + 1 < process_count THEN "recv_chunk_bytes" ELSE "barrier973"]
  /\ Logged(r, "recv_chunk_bytes")
  /\ UNCHANGED <<config, point_start, point_end, reader, writer, sized, final,
                 point_start_offset, point_bytes_written, all_point_bytes_written,
                 write_point_offset, output, gathered, number_chunks, table_pos, table>>

\* faulty variant: rank 0 sends the stream position of its writer
TablePosSent_StreamPos(w) == w.pos

\* line 979: the value rank 0 sends with tag 3
TablePosSent(w) == w.chunk_table_start_position

\* lines 978-979: rank 0 sends its writer's chunk_table_start_position, tag 3
SendTablePos(r) ==
  /\ pc[r] = "send_table_pos"
  /\ IF r = 0
     THEN /\ SendCompletes(pc[LastRank] = "recv_table_pos")
          /\ msgs' = msgs \cup {[src |-> 0, dst |-> LastRank, tag |-> 3,
                                 data |-> TablePosSent(writer[r])]}
          /\ Logged(r, "send_table_pos")
     ELSE UNCHANGED <<msgs, log>>
  /\ pc' = [pc EXCEPT ![r] = IF r = LastRank THEN "recv_table_pos" ELSE "barrier982"]
  /\ UNCHANGED <<config, point_start, point_end, reader, writer, sized, final,
                 point_start_offset, point_bytes_written, all_point_bytes_written,
                 write_point_offset, output, gathered, number_chunks, chunk_bytes,
                 recv_i, table_pos, table>>

\* lines 980-981: rank P-1 receives it
RecvTablePos(r) ==
  /\ pc[r] = "recv_table_pos"
  /\ r = LastRank
  /\ \E m \in msgs :
       /\ m.src = 0 /\ m.dst = r /\ m.tag = 3
       /\ table_pos' = m.data
       /\ msgs' = msgs \ {m}
  /\ pc' = [pc EXCEPT ![r] = "barrier982"]
  /\ Logged(r, "recv_table_pos")
  /\ UNCHANGED <<config, point_start, point_end, reader, writer, sized, final,
                 point_start_offset, point_bytes_written, all_point_bytes_written,
                 write_point_offset, output, gathered, number_chunks, chunk_bytes,
                 recv_i, table>>

\* lines 1003-1006: what rank P-1 installs in its writer
InstallTable(w, start_position, total, bytes) ==
  [w EXCEPT !.chunk_table_start_position = start_position,
            !.number_chunks = total,
            !.chunk_bytes = bytes]

\* faulty variant: the first rank writes the chunk table
WritesTable_First(r, P) == r = 0

\* faulty variant: every rank writes a chunk table
WritesTable_Every(r, P) == TRUE

\* line 1001: the rank that writes the chunk table
WritesTable(r, P) == r = P - 1

\* lines 1001-1009: rank P-1 installs the gathered table in its writer and
\* calls write_chunk_table(), the others do nothing; table records the fields
\* write_chunk_table() finds in the writer and the stream position it is
\* called at
WriteChunkTable(r) ==
  /\ pc[r] = "write_chunk_table"
  /\ IF WritesTable(r, process_count)
     THEN LET w == InstallTable(writer[r], table_pos,
                                NumberChunksTotal(number_chunks, process_count), chunk_bytes)
          IN  /\ writer' = [writer EXCEPT ![r] = [w EXCEPT !.pos = @ + TableBytes(w.number_chunks)]]
              /\ file' = WriteChunkTableFile(file, w)
              /\ written_by' =
                   PutOwner(PutOwner(written_by, Who(r, "table"), w.chunk_table_start_position, 1),
                            Who(r, "table"), w.pos, TableBytes(w.number_chunks))
              /\ table' = [written |-> TRUE, by |-> r, pos |-> w.pos,
                           start_position |-> w.chunk_table_start_position,
                           number_chunks |-> w.number_chunks,
                           chunk_bytes |-> w.chunk_bytes]
              /\ Logged(r, "write_chunk_table")
     ELSE UNCHANGED <<writer, output, table, log>>
  /\ pc' = [pc EXCEPT ![r] = "exit"]
  /\ UNCHANGED <<config, point_start, point_end, reader, sized, final,
                 point_start_offset, point_bytes_written, all_point_bytes_written,
                 write_point_offset, gathered, number_chunks, chunk_bytes,
                 recv_i, msgs, table_pos>>

\* README.txt lines 29-31: the LAZ output is converted back with as many
\* processes; the new run starts as Init does, on the points the LAZ reader
\* finds in the file
Reconvert ==
  /\ conversion = 1 /\ ~laz_in /\ ~compatible_down
  /\ \A r \in Rank : pc[r] = "exit"
  /\ LazReadable
  /\ conversion' = 2
  /\ laz_in' = TRUE
  /\ input' = LazPoints
  /\ pc' = [r \in Rank |-> "partition"]
  /\ point_start' = [r \in Rank |-> Unset]
  /\ point_end' = [r \in Rank |-> Unset]
  /\ reader' = [r \in Rank |-> 0]
  /\ writer' = [r \in Rank |-> WriterOpen(FirstWriterNil(compatible_down))]
  /\ sized' = [r \in Rank |-> << >>]
  /\ final' = [r \in Rank |-> << >>]
  /\ point_start_offset' = [r \in Rank |-> Unset]
  /\ point_bytes_written' = [r \in Rank |-> Unset]
  /\ all_point_bytes_written' = [r \in Rank |-> << >>]
  /\ write_point_offset' = [r \in Rank |-> Unset]
  /\ file' = << >>
  /\ written_by' = << >>
  /\ gathered' = [r \in Rank |-> Unset]
  /\ number_chunks' = << >>
  /\ chunk_bytes' = << >>
  /\ recv_i' = 0
  /\ msgs' = {}
  /\ table_pos' = 0
  /\ table' = NoTable
  /\ log' = [r \in Rank |-> << >>]
  /\ UNCHANGED <<npoints, chunk_size, process_count, compatible_down, rendezvous>>

Next ==
  \/ \E r \in Rank : Partition(r)
  \/ \E r \in Rank : SizeBegin(r)
  \/ \E r \in Rank : SizeLoop(r)
  \/ \E r \in Rank : Barrier(r)
  \/ \E r \in Rank : SizeDone(r)
  \/ \E r \in Rank : Tell(r)
  \/ \E r \in Rank : Allgather(r)
  \/ \E r \in Rank : Open(r)
  \/ \E r \in Rank : Offset(r)
  \/ \E r \in Rank : FinalLoop(r)
  \/ \E r \in Rank : FinalDone(r)
  \/ \E r \in Rank : Gather(r)
  \/ \E r \in Rank : SendChunkBytes(r)
  \/ \E r \in Rank : RecvChunkBytes(r)
  \/ \E r \in Rank : SendTablePos(r)
  \/ \E r \in Rank : RecvTablePos(r)
  \/ \E r \in Rank : WriteChunkTable(r)
  \/ Reconvert

Spec == Init /\ [][Next]_vars

\* every process is scheduled and MPI delivers: a step that stays possible
\* is taken
FairSpec == Spec /\ WF_vars(Next)

(* ------------------------ vocabulary of the claims --------------------- *)
\* the input file holds the points its header counts
IntactInput == Len(input) = npoints

\* the input has one of the point formats 0 to 5 (README.txt line 36: LAS 1.0
\* to 1.2 only), so that both passes encode with the same writer
SupportedFormat == ~compatible_down

K == npoints \div chunk_size
L == npoints % chunk_size

Partitioned(r) == pc[r] # "partition"
AllPartitioned == \A r \in Rank : Partitioned(r)

\* chunks the deal gives rank r: one extra for each of the first K mod P ranks
CeilDiv(a, b) == (a + b - 1) \div b
ChunksOf(r) == IF r < K % process_count THEN CeilDiv(K, process_count) ELSE K \div process_count
ChunksBelow(r) == SumSeq([i \in 1 .. process_count |-> ChunksOf(i - 1)], r)

(* ------------------------------- claims -------------------------------- *)
\* C1: in both directions the ranges [point_start, point_end) of the ranks
\* start at 0, are contiguous in rank order, pairwise disjoint, and their
\* lengths sum to npoints.
C1_PartitionCoverage ==
  /\ \A r \in Rank : Partitioned(r) =>
       /\ point_start[r] <= point_end[r]
       /\ r = 0 => point_start[r] = 0
       /\ r = LastRank => point_end[r] = npoints
  /\ \A r, s \in Rank : Partitioned(r) /\ Partitioned(s) =>
       /\ s = r + 1 => point_end[r] = point_start[s]
       /\ r # s => (point_end[r] <= point_start[s] \/ point_end[s] <= point_start[r])
  /\ AllPartitioned =>
       SumSeq([i \in 1 .. process_count |-> point_end[i - 1] - point_start[i - 1]],
              process_count) = npoints

C1_Witness ==
  /\ AllPartitioned /\ process_count = 3 /\ npoints = 5
  /\ \A r \in Rank : point_start[r] < point_end[r]

\* C2: LAS -> LAZ deals ceil(K/P) chunks to the first K mod P ranks and
\* floor(K/P) to the others; a rank's range is that many chunks long, the
\* last rank's range is L points longer, and a range starts after the chunks
\* of the lower ranks.
C2_DealExtraToLowRanks ==
  \A r \in Rank : (~laz_in /\ Partitioned(r)) =>
    /\ point_start[r] = chunk_size * ChunksBelow(r)
    /\ point_end[r] - point_start[r] =
         ChunksOf(r) * chunk_size + (IF r = LastRank THEN L ELSE 0)

C2_Witness ==
  /\ ~laz_in /\ AllPartitioned /\ process_count >= 2
  /\ K >= process_count /\ K % process_count # 0 /\ L > 0
  /\ point_end[0] - point_start[0] > point_end[LastRank] - point_start[LastRank]

\* C3: in LAS -> LAZ every point_start is a multiple of chunk_size, and so
\* is point_end of every rank but the last.
C3_ChunkAlignment ==
  \A r \in Rank : (~laz_in /\ Partitioned(r)) =>
    /\ point_start[r] % chunk_size = 0
    /\ r < LastRank => point_end[r] % chunk_size = 0

C3_Witness ==
  /\ ~laz_in /\ AllPartitioned /\ process_count >= 2 /\ chunk_size >= 2
  /\ point_end[LastRank] % chunk_size # 0
  /\ point_start[LastRank] > 0

\* C4: in LAZ -> LAS rank R owns floor(N/P) points from R * floor(N/P), the
\* last rank the N mod P remaining ones too, and every rank converts exactly
\* the points of its range.
C4_EqualSplitConverted ==
  \A r \in Rank : laz_in =>
    /\ Partitioned(r) =>
         /\ point_start[r] = r * (npoints \div process_count)
         /\ point_end[r] - point_start[r] =
              (npoints \div process_count) + (IF r = LastRank THEN npoints % process_count ELSE 0)
    /\ Reached(r, "barrier926") => final[r] = Range(point_start[r], point_end[r])

\* C5: in LAS -> LAZ with fewer whole chunks than ranks no rank enters the
\* sizing pass, and nothing is written.
C5_InsufficientChunksStops ==
  (~laz_in /\ K < process_count) =>
    /\ \A r \in Rank : pc[r] \in {"partition", "size_begin"} /\ sized[r] = << >>
    /\ file = << >>
    /\ ~table.written

AllBytes == [i \in 1 .. process_count |-> point_bytes_written[i - 1]]
IntervalStart(r) == HeaderEnd + SumSeq(AllBytes, r)
Interval(r) == IntervalStart(r) .. (IntervalStart(r) + point_bytes_written[r] - 1)

\* offsets past the header that rank r wrote
WrittenOffsets(r) == {o \in DOMAIN written_by : o >= HeaderEnd /\ Who(r, "final") \in written_by[o]}

FinalPassOver == \A r \in Rank : Reached(r, "barrier932")

\* C6: for an input of a supported point format, in the final pass a rank writes exactly the interval that starts at
\* HeaderEnd plus the byte counts of the lower ranks and is as long as its own
\* byte count; the intervals are disjoint, lie in rank order and tile the
\* compressed region.
C6_ByteTiling ==
  /\ \A r \in Rank : Reached(r, "final_loop") => write_point_offset[r] = IntervalStart(r)
  /\ SupportedFormat =>
       LET wrote == [r \in Rank |-> WrittenOffsets(r)]
       IN
       /\ \A r \in Rank : Reached(r, "final_loop") => wrote[r] \subseteq Interval(r)
       /\ \A r \in Rank : Reached(r, "barrier932") => wrote[r] = Interval(r)
       /\ \A r, s \in Rank : r < s =>
            \A o \in wrote[r] : \A q \in wrote[s] : o < q
       /\ FinalPassOver =>
            {o \in DOMAIN file : o >= HeaderEnd /\ file[o].kind # "tbl"} =
              HeaderEnd .. (HeaderEnd + SumSeq(AllBytes, process_count) - 1)

C6_Witness ==
  /\ FinalPassOver /\ ~laz_in /\ process_count = 3 /\ K >= process_count
  /\ point_bytes_written[0] # point_bytes_written[1]
  /\ \A r \in Rank : WrittenOffsets(r) # {}

\* C7: for an input of a supported point format the bytes a rank emits in the final pass, from its offset to its
\* stream position after its last chunk was terminated, are as many as it
\* measured in the sizing pass.
C7_SizingEqualsFinal ==
  \A r \in Rank : (SupportedFormat /\ Reached(r, "barrier932") /\ ~table.written) =>
    writer[r].pos - write_point_offset[r] = point_bytes_written[r]

C7_Witness ==
  \E r \in Rank :
    /\ r > 0 /\ ~laz_in /\ K >= process_count /\ pc[r] = "barrier932"
    /\ writer[r].number_chunks >= 2
    /\ point_bytes_written[r] > 0

\* where the entries of rank r start in the assembled chunk_bytes
TableRow(r) == SumSeq([i \in 1 .. process_count |-> gathered[i - 1]], r)

\* C8: for an input of a supported point format the number_chunks of the table is the sum of the ranks' chunk counts
\* and the prefix sums of its chunk_bytes are the chunk starts in the file;
\* the entries of rank r start at rank r's offset and sum to its byte count.
C8_ChunkTableConsistent ==
  (SupportedFormat /\ table.written) =>
    /\ table.number_chunks = TableRow(process_count)
    /\ table.number_chunks = Cardinality(ChunkStarts)
    /\ Len(table.chunk_bytes) = table.number_chunks
    /\ \A j \in 1 .. table.number_chunks :
         /\ table.chunk_bytes[j] > 0
         /\ (HeaderEnd + SumSeq(table.chunk_bytes, j - 1)) \in ChunkStarts
         /\ (HeaderEnd + SumSeq(table.chunk_bytes, j)) \in ChunkEnds
    /\ \A r \in Rank :
         /\ HeaderEnd + SumSeq(table.chunk_bytes, TableRow(r)) = write_point_offset[r]
         /\ SumSeq(table.chunk_bytes, TableRow(r + 1)) - SumSeq(table.chunk_bytes, TableRow(r))
              = point_bytes_written[r]

C8_Witness ==
  /\ table.written /\ process_count = 3 /\ K >= process_count
  /\ table.number_chunks >= 4

\* the points stored in chunk j of the table
PointsInChunk(j) ==
  LET from == HeaderEnd + SumSeq(table.chunk_bytes, j - 1)
  IN  Cardinality({o \in PointCells : o >= from /\ o < from + table.chunk_bytes[j]})

\* C9: for an intact input in LAS -> LAZ with K >= P every chunk of the table but the last holds
\* chunk_size points; there are K chunks when L = 0 and K + 1 otherwise, the
\* extra one holding the L trailing points.
C9_FullChunksButLast ==
  (IntactInput /\ ~laz_in /\ K >= process_count /\ table.written) =>
    /\ table.number_chunks = K + (IF L = 0 THEN 0 ELSE 1)
    /\ \A j \in 1 .. table.number_chunks :
         PointsInChunk(j) = IF j = table.number_chunks /\ L # 0 THEN L ELSE chunk_size

C9_Witness ==
  /\ ~laz_in /\ K >= process_count /\ table.written
  /\ process_count >= 2 /\ L > 0 /\ chunk_size >= 2

\* C10: for an intact input and every process count with K >= P the points stored in the
\* compressed region, read in increasing file offset, are the source points
\* 0 .. N-1 in order, each once; hence the same for any two process counts.
C10_PeerCountInvariance ==
  (IntactInput /\ ~laz_in /\ K >= process_count /\ FinalPassOver) =>
    PointsInFile = Range(0, npoints)

C10_Witness ==
  /\ ~laz_in /\ K >= process_count /\ FinalPassOver
  /\ process_count = 3 /\ npoints >= 4

(* --------------------------- serial encoder ---------------------------- *)
\* lines 1071-1075: the loop of the path that encodes the whole input with one
\* writer on the real output; st is the writer and the file it writes
RECURSIVE SerialWrite(_, _, _, _)
SerialWrite(st, in, pos, C) ==
  IF ~ReadOk(pos, Len(in)) THEN st
  ELSE SerialWrite([w |-> WritePoint(st.w, PointAt(in, pos), C, TRUE),
                    f |-> PutCells(st.f, st.w.pos, WritePointCells(st.w, PointAt(in, pos), C, TRUE))],
                   in, pos + 1, C)

\* LASwriter::close() -> LASwritePoint::done(): a coder that was started is
\* flushed and its chunk entered in the table; then the chunk table is written
WriterClose(st, last) ==
  LET d == IF st.w.started
           THEN [w |-> AddChunkToTable(EncDone(st.w)),
                 f |-> PutCells(st.f, st.w.pos, Cells("term", last, DoneBytes(st.w.chunk_count)))]
           ELSE st
  IN  [f |-> WriteChunkTableFile(d.f, d.w),
       table |-> [pos |-> d.w.pos,
                  start_position |-> d.w.chunk_table_start_position,
                  number_chunks |-> d.w.number_chunks,
                  chunk_bytes |-> d.w.chunk_bytes]]

\* lines 1069-1084: open, write every point, close
SerialEncode(in, C) ==
  WriterClose(SerialWrite([w |-> WriterOpen(FALSE), f |-> HeaderFile(TRUE)], in, 0, C),
              Len(in) - 1)

\* C11: with one process and an intact LAS input the rank owns [0, N), writes
\* from HeaderEnd, runs to the end, and leaves the file the serial encoder
\* writes for the same points and chunk size, the chunk table with the same
\* entries at the same offset.
C11_SerialEquivalence ==
  (process_count = 1 /\ ~laz_in /\ ~compatible_down /\ IntactInput) =>
    /\ pc[0] # "crashed"
    /\ Partitioned(0) => (point_start[0] = 0 /\ point_end[0] = npoints)
    /\ Reached(0, "final_loop") => write_point_offset[0] = HeaderEnd
    /\ pc[0] = "exit" =>
         /\ file = SerialEncode(input, chunk_size).f
         /\ table.pos = SerialEncode(input, chunk_size).table.pos
         /\ table.number_chunks = SerialEncode(input, chunk_size).table.number_chunks
         /\ table.chunk_bytes = SerialEncode(input, chunk_size).table.chunk_bytes

\* the same for the inputs that hold at least one point
SerialEquivalenceNonEmpty == npoints >= 1 => C11_SerialEquivalence

SerialEquivalenceReached ==
  /\ process_count = 1 /\ ~laz_in /\ ~compatible_down /\ IntactInput
  /\ npoints >= 5 /\ chunk_size = 2 /\ pc[0] = "exit"

(* ------------------------------ round trip ----------------------------- *)
\* the LAS file of the points 0 .. N-1: the header, then record i at
\* HeaderEnd + i * RecLen
LasFile(N) ==
  [o \in 0 .. (HeaderEnd + N * RecLen - 1) |->
     IF o < HeaderEnd THEN HeaderFile(FALSE)[o]
     ELSE Cells("rec", (o - HeaderEnd) \div RecLen, RecLen)[((o - HeaderEnd) % RecLen) + 1]]

\* C12: when the LAZ output of a LAS -> LAZ run with K >= P is converted back
\* by as many processes, the LAS output holds the records of the source points
\* 0 .. N-1 in the source's order, at the source's offsets.
C12_RoundTripIdentity ==
  (conversion = 2 /\ K >= process_count /\ FinalPassOver) =>
    /\ PointsInFile = Range(0, npoints)
    /\ file = LasFile(npoints)

C12_Witness ==
  /\ conversion = 2 /\ FinalPassOver /\ process_count = 3
  /\ K >= process_count /\ L > 0 /\ chunk_size = 2
  /\ \A r \in Rank : final[r] # << >>

(* ------------------------- ownership of the bytes ---------------------- *)
\* the ranks that wrote offset o in one of the passes
Writers(o, passes) == {w.rank : w \in {x \in written_by[o] : x.pass \in passes}}

\* C13 as stated, for the inputs of a supported point format: over a whole
\* run no offset of the output file is written by two different ranks, the
\* header region included.
C13_NoSharedByte ==
  ~compatible_down =>
    \A o \in DOMAIN written_by :
      Cardinality(Writers(o, {"open", "sizing", "final", "table"})) <= 1

\* C13, amended: for an input of a supported point format, once the output
\* was reopened, no offset from HeaderEnd on is
\* written by two different ranks: a rank's compressed region by that rank
\* only, the chunk table region by rank P-1 only.  The header region is
\* written by every rank that opens the output, and rank P-1 writes the
\* chunk table pointer in it once more.
C13_DisjointPastHeader ==
  /\ \A o \in DOMAIN written_by : o >= HeaderEnd =>
       /\ SupportedFormat =>
            /\ Cardinality(Writers(o, {"final", "table"})) <= 1
            /\ \A r \in Rank : Who(r, "final") \in written_by[o] => o \in Interval(r)
       /\ Writers(o, {"table"}) \subseteq {LastRank}
  /\ \A r \in Rank : Reached(r, "barrier902") =>
       \A o \in 0 .. (HeaderEnd - 1) : r \in Writers(o, {"open"})
  /\ table.written =>
       /\ Writers(HeaderEnd - 1, {"table"}) = {LastRank}
       /\ \A o \in table.pos .. (table.pos + TableBytes(table.number_chunks) - 1) :
            Writers(o, {"table"}) = {LastRank}
       /\ SupportedFormat =>
            /\ table.pos = HeaderEnd + SumSeq(AllBytes, process_count)
            /\ \A o \in table.pos .. (table.pos + TableBytes(table.number_chunks) - 1) :
                 Writers(o, {"final"}) = {}

C13_Witness ==
  /\ table.written /\ process_count = 3 /\ K >= process_count
  /\ \A r \in Rank : WrittenOffsets(r) # {}
  /\ Cardinality(Writers(0, {"open"})) = 3

(* ------------------------------- phases -------------------------------- *)
\* the state of the per-peer state machine a rank is in, by its place in main:
\* 1 Partitioning, 2 Sizing, 3 Exchange (up to the all-gather), 4 Finalizing
\* (reopen, final pass and the exchange of the chunk table's parts),
\* 5 TableWriting, 6 Done
Phase(r, l) ==
  IF l = "partition" THEN 1
  ELSE IF At(l) <= At("tell881") THEN 2
  ELSE IF At(l) <= At("barrier899") THEN 3
  ELSE IF At(l) <= At("barrier982") THEN 4
  ELSE IF l = "write_chunk_table" THEN (IF r = LastRank THEN 5 ELSE 4)
  ELSE 6

\* a step keeps a rank in its phase or moves it to the next one; only rank
\* P-1 enters TableWriting, the others go from Finalizing to Done, and so
\* does every rank of a LAZ -> LAS run, which has no chunk table
PhaseStep(r) ==
  \/ pc'[r] = pc[r]
  \/ pc'[r] = "crashed"
  \/ Phase(r, pc'[r]) = Phase(r, pc[r])
  \/ Phase(r, pc'[r]) = Phase(r, pc[r]) + 1
  \/ Phase(r, pc[r]) = 4 /\ Phase(r, pc'[r]) = 6 /\ (r # LastRank \/ laz_in)

AllDone == \A r \in Rank : pc[r] = "exit"

\* C14: with K >= P, an intact input and an MPI library that buffers the
\* sends, every rank eventually reaches the
\* end of main; on the way a rank only moves from a phase to the next one, and
\* in LAS -> LAZ rank P-1, and no other rank, has written the chunk table
\* when it is done.
C14_EveryPeerDone ==
  /\ [][conversion' = conversion => \A r \in Rank : pc[r] # "crashed" => PhaseStep(r)]_vars
  /\ [](\A r \in Rank : (pc[r] = "exit" /\ ~laz_in) =>
          (r = LastRank <=> \E n \in 1 .. Len(log[r]) : log[r][n] = "write_chunk_table"))
  /\ ((K >= process_count /\ IntactInput /\ ~rendezvous) ~> AllDone)

C14_Witness ==
  /\ AllDone /\ ~laz_in /\ process_count = 3 /\ K >= process_count /\ IntactInput
  /\ table.written /\ table.by = LastRank

(* --------------------- order of exchange and final pass ---------------- *)
AllgatherDone(r) == all_point_bytes_written[r] # << >>
GatherDone == \A s \in Rank : gathered[s] # Unset
ChunkBytesReceived == recv_i = process_count
TablePosReceived == \E n \in 1 .. Len(log[LastRank]) : log[LastRank][n] = "recv_table_pos"

\* C15 as stated: in LAS -> LAZ a rank is in its final pass only after the
\* all-gather, the gather to rank P-1, the receipt of every chunk_bytes array
\* and the receipt of the chunk table position have completed.
C15_FourExchangesThenFinal ==
  \A r \in Rank : (~laz_in /\ Reached(r, "final_loop")) =>
    /\ AllgatherDone(r)
    /\ GatherDone
    /\ ChunkBytesReceived
    /\ TablePosReceived

\* C15, amended: a rank is in its final pass only after the all-gather has
\* completed on it, with the byte count of every rank; the gather, the
\* sends and receives of chunk_bytes and of the chunk table position happen
\* after every rank has finished its final pass, and all of them before rank
\* P-1 writes the chunk table.
C15_AllgatherThenFinalThenRest ==
  /\ \A r \in Rank : Reached(r, "final_loop") =>
       /\ AllgatherDone(r)
       /\ all_point_bytes_written[r] = AllBytes
       /\ \A s \in Rank : point_bytes_written[s] # Unset
  /\ ~laz_in =>
       /\ (\E s \in Rank : gathered[s] # Unset) => FinalPassOver
       /\ (msgs # {} \/ recv_i > 0 \/ TablePosReceived) => FinalPassOver
       /\ table.written => (GatherDone /\ ChunkBytesReceived /\ TablePosReceived)
  /\ laz_in => ((\A s \in Rank : gathered[s] = Unset) /\ msgs = {} /\ ~table.written)

C15_Witness ==
  /\ ~laz_in /\ process_count = 3 /\ K >= process_count
  /\ \E r \in Rank : pc[r] = "final_loop" /\ final[r] # << >>
  /\ \A s \in Rank : gathered[s] = Unset

(* ------------------------ order of the exchange steps ------------------ *)
\* where event e first stands in the log of rank r, 0 if it does not
First(r, e) ==
  LET at == {n \in 1 .. Len(log[r]) : log[r][n] = e}
  IN  IF at = {} THEN 0 ELSE CHOOSE n \in at : \A m \in at : n <= m

Has(r, e) == First(r, e) > 0

\* rank r did a before b
Before(r, a, b) == Has(r, a) /\ First(r, a) < First(r, b)

\* rank r passed a barrier between its first a and its first b
BarrierBetween(r, a, b) ==
  LET from == First(r, a)
      to == First(r, b)
  IN  \E n \in 1 .. Len(log[r]) : from < n /\ n < to /\ log[r][n] = "barrier"

\* the call of rank r in the exchange of the chunk table position: rank 0
\* sends, rank P-1 receives (with one process the rank does both)
TablePosCalls(r) ==
  (IF r = 0 THEN {"send_table_pos"} ELSE {}) \cup (IF r = LastRank THEN {"recv_table_pos"} ELSE {})

\* C16 as stated: in LAS -> LAZ a rank does the all-gather, the gather, the
\* send of chunk_bytes and its call of the chunk table position exchange in
\* this order with a barrier between every two consecutive ones, and starts
\* its final pass only after the all-gather and the seek to its offset.
C16_BarrierBetweenAllSteps ==
  \A r \in Rank : ~laz_in =>
    /\ Has(r, "gather") =>
         (Before(r, "allgather", "gather") /\ BarrierBetween(r, "allgather", "gather"))
    /\ Has(r, "send_chunk_bytes") =>
         (Before(r, "gather", "send_chunk_bytes") /\ BarrierBetween(r, "gather", "send_chunk_bytes"))
    /\ \A e \in TablePosCalls(r) : Has(r, e) =>
         (Before(r, "send_chunk_bytes", e) /\ BarrierBetween(r, "send_chunk_bytes", e))
    /\ Reached(r, "final_loop") => Before(r, "allgather", "seek")

\* C16, amended: the order is as stated, and a rank starts its final pass
\* only after the all-gather and the seek to the offset computed from it;
\* a rank passes barriers between the all-gather and the gather and between
\* the chunk_bytes exchange and the chunk table position exchange, but none
\* between the gather and its send of chunk_bytes.
C16_OrderAndBarriers ==
  \A r \in Rank :
    /\ Reached(r, "final_loop") =>
         /\ Before(r, "allgather", "seek")
         /\ write_point_offset[r] = HeaderEnd + SumSeq(all_point_bytes_written[r], r)
    /\ ~laz_in =>
         /\ Has(r, "gather") =>
              /\ Before(r, "allgather", "gather") /\ BarrierBetween(r, "allgather", "gather")
              /\ Before(r, "seek", "gather")
         /\ Has(r, "send_chunk_bytes") =>
              /\ Before(r, "gather", "send_chunk_bytes")
              /\ ~BarrierBetween(r, "gather", "send_chunk_bytes")
         /\ Has(r, "recv_chunk_bytes") =>
              (r = LastRank /\ Before(r, "send_chunk_bytes", "recv_chunk_bytes"))
         /\ \A e \in TablePosCalls(r) : Has(r, e) =>
              /\ Before(r, "send_chunk_bytes", e) /\ BarrierBetween(r, "send_chunk_bytes", e)
              /\ r = LastRank => (ChunkBytesReceived /\ BarrierBetween(r, "recv_chunk_bytes", e))
         /\ Has(r, "send_table_pos") => r = 0
         /\ Has(r, "recv_table_pos") => r = LastRank

C16_Witness ==
  /\ ~laz_in /\ process_count = 3 /\ K >= process_count
  /\ Has(0, "send_table_pos") /\ Has(LastRank, "recv_table_pos")
  /\ \A r \in Rank : pc[r] = "barrier982"

(* --------------------------- writing the table ------------------------- *)
\* how often rank r called write_chunk_table()
TableWrites(r) == Cardinality({n \in 1 .. Len(log[r]) : log[r][n] = "write_chunk_table"})

\* C17: the chunk table is written by rank P-1 only, in LAS -> LAZ only and
\* once; when it is written every rank has written its whole compressed
\* region (for an input of a supported point format exactly its interval) and rank P-1 has received the chunk_bytes of every rank; a
\* LAS -> LAZ run that ends has written it.
C17_TableOnceByLastRank ==
  /\ \A r \in Rank : TableWrites(r) <= (IF r = LastRank /\ ~laz_in THEN 1 ELSE 0)
  /\ table.written <=> TableWrites(LastRank) = 1
  /\ table.written =>
       /\ table.by = LastRank
       /\ FinalPassOver
       /\ SupportedFormat => \A r \in Rank : WrittenOffsets(r) = Interval(r)
       /\ ChunkBytesReceived
       /\ \A m \in msgs : m.tag # 2
       /\ \A r \in Rank \ {LastRank} :
            SubSeq(table.chunk_bytes, TableRow(r) + 1, TableRow(r + 1)) = writer[r].chunk_bytes
  /\ (AllDone /\ ~laz_in) => table.written

C17_Witness ==
  /\ AllDone /\ ~laz_in /\ process_count = 3 /\ K >= process_count
  /\ TableWrites(LastRank) = 1 /\ Len(table.chunk_bytes) >= 4

(* ---------------------- the chunk table position ----------------------- *)
\* where the header region keeps the pointer to the chunk table
PointerOffset == HeaderEnd - 1

\* the offset right after the compressed region of the last rank
EndOfRegions == HeaderEnd + SumSeq(AllBytes, process_count)

InSizingPass(r) == pc[r] \in {"size_loop", "barrier873", "size_done", "barrier879", "tell881"}

\* C19: while a rank is in its sizing pass its writer is the nil writer, no
\* offset of the real output is ever written in a sizing pass, and a rank
\* opens the real output only after its all-gather.
C19_SizingWritesNothing ==
  /\ \A r \in Rank : InSizingPass(r) => writer[r].nil
  /\ \A o \in DOMAIN written_by : Writers(o, {"sizing"}) = {}
  /\ \A r \in Rank : Has(r, "open") => Before(r, "allgather", "open")

\* the same for the inputs of a point format up to 5
SizingWritesNothingUpTo5 == ~compatible_down => C19_SizingWritesNothing

SizingWritesNothingReached ==
  /\ ~compatible_down /\ process_count = 3 /\ K >= process_count
  /\ \A r \in Rank : pc[r] = "tell881" /\ writer[r].nil /\ writer[r].pos > HeaderEnd
  /\ file = << >>

(* --------------------------------- errors ------------------------------ *)
\* line 1169: a rank that reaches the end of main calls byebye(false), which
\* ends the process with status 0; a rank elsewhere has not ended
ExitStatus(r) == IF pc[r] = "exit" THEN 0 ELSE Unset

\* the reader of rank r stopped returning points before the rank had written
\* the points of its range
ShortRead(r) == Reached(r, "barrier873") /\ Len(sized[r]) < point_end[r] - point_start[r]

\* C20: once the reader of some rank has stopped short of the rank's range,
\* no rank ends with status 0.
C20_ErrorAbortsCohort ==
  (\E r \in Rank : ShortRead(r)) => \A s \in Rank : ExitStatus(s) # 0

(* ------------------------- sizing against final ------------------------ *)
\* the bytes rank r wrote in its final pass
FinalBytes(r) == Cardinality(WrittenOffsets(r))

\* the final pass of rank r is over and its byte count is not the one the
\* rank reported after the sizing pass
SizingMismatch(r) == Reached(r, "barrier932") /\ FinalBytes(r) # point_bytes_written[r]

\* C21: when the final-pass byte count of some rank differs from its
\* sizing-pass byte count, no rank ends with status 0 and no chunk table is
\* written.
C21_MismatchIsFatal ==
  (\E r \in Rank : SizingMismatch(r)) =>
    /\ \A s \in Rank : ExitStatus(s) # 0
    /\ ~table.written

(* ----------------------- agreement on the partition -------------------- *)
\* C22: a rank starts its sizing pass only after an all-gather, the one that
\* compares the npoints of the ranks, has completed on it.
C22_CompareBeforeSizing ==
  \A r \in Rank : Reached(r, "size_loop") => Has(r, "allgather")

(* ------------------------ the points a rank writes --------------------- *)
\* C23: for an intact input a rank that has left the loop of a pass has
\* written in it the points point_start .. point_end - 1 in order and no
\* other, an empty range included.
C23_ExactRangeBothPasses ==
  \A r \in Rank : IntactInput =>
    /\ Reached(r, "barrier873") => sized[r] = Range(point_start[r], point_end[r])
    /\ Reached(r, "barrier926") => final[r] = Range(point_start[r], point_end[r])

(* --------------------------- unbuffered sends -------------------------- *)
\* some rank has not reached the end of main and no rank can take a step
BlockedForever == ~AllDone /\ ~ENABLED Next

\* C24: in a LAS -> LAZ run with K >= P whose sends return only once the
\* matching receive is posted, the ranks are never all blocked before the
\* end of main.
C24_NoBufferingNeeded ==
  (rendezvous /\ ~laz_in /\ K >= process_count) => ~BlockedForever

(* ---------------------- where the first chunk starts ------------------- *)
\* the end of the first chunk that ends past the offset of rank r
FirstChunkEnd(r) ==
  CHOOSE e \in ChunkEnds :
    e > write_point_offset[r] /\ \A q \in ChunkEnds : q > write_point_offset[r] => e <= q

\* rank r has closed a chunk in its final pass and still holds its own table
ClosedAChunk(r) ==
  /\ Reached(r, "final_loop") /\ writer[r].number_chunks >= 1
  /\ ~(r = LastRank /\ table.written)

\* C25: in LAS -> LAZ a rank that stands before the first point of its final
\* pass has its stream and its chunk_start_position at its write_point_offset;
\* for an input of a supported point format the first entry of its
\* chunk_bytes is the length from that offset to the end of its first chunk,
\* and so is its entry in the chunk table.
C25_FirstChunkFromOffset ==
  \A r \in Rank : ~laz_in =>
    /\ (pc[r] = "final_loop" /\ final[r] = << >>) =>
         /\ writer[r].pos = write_point_offset[r]
         /\ writer[r].chunk_start_position = write_point_offset[r]
    /\ (SupportedFormat /\ ClosedAChunk(r)) =>
         writer[r].chunk_bytes[1] = FirstChunkEnd(r) - write_point_offset[r]
    /\ (SupportedFormat /\ table.written /\ gathered[r] >= 1) =>
         table.chunk_bytes[TableRow(r) + 1] = FirstChunkEnd(r) - write_point_offset[r]

C25_Witness ==
  /\ ~laz_in /\ process_count = 3 /\ K >= process_count /\ chunk_size >= 2
  /\ \E r \in Rank :
       /\ r > 0 /\ pc[r] = "barrier926" /\ ClosedAChunk(r)
       /\ write_point_offset[r] > HeaderEnd
       /\ writer[r].chunk_bytes[1] < FirstChunkEnd(r) - HeaderEnd

(* ------------------- what a rank knows after a pass -------------------- *)
\* rank r has read its byte count and still holds the writer of the sizing pass
SizingRead(r) == pc[r] \in {"barrier886", "barrier888", "allgather", "barrier899", "open"}

\* rank r has ended its final pass and still holds its own chunk table
FinalEnded(r) == Reached(r, "barrier932") /\ ~(r = LastRank /\ table.written)

\* the chunk entries the deal lets one expect of rank r
EntriesOf(r) == ChunksOf(r) + (IF r = LastRank /\ L > 0 THEN 1 ELSE 0)

\* C26: in LAS -> LAZ the byte count a rank reads at line 881 is the sum of
\* the chunk_bytes entries it recorded, the entry of its terminated last
\* chunk included, with no chunk left open; a rank below P-1 records as many
\* entries as it was dealt chunks, rank P-1 one more exactly when L > 0; the
\* final pass records as many.
C26_BytesAfterTermination ==
  \A r \in Rank : ~laz_in =>
    /\ SizingRead(r) =>
         /\ point_bytes_written[r] = SumSeq(writer[r].chunk_bytes, writer[r].number_chunks)
         /\ writer[r].chunk_start_position = writer[r].pos
         /\ writer[r].number_chunks = EntriesOf(r)
    /\ FinalEnded(r) => writer[r].number_chunks = EntriesOf(r)

\* the same for the runs with K >= P on an intact input
BytesAfterTerminationEnoughChunks ==
  (K >= process_count /\ IntactInput) => C26_BytesAfterTermination

BytesAfterTerminationReached ==
  /\ ~laz_in /\ K >= process_count /\ IntactInput /\ process_count = 3 /\ L > 0
  /\ \A r \in Rank : SizingRead(r)
  /\ writer[LastRank].number_chunks = ChunksOf(LastRank) + 1

(* ----------------------- assembling the chunk table -------------------- *)
\* how often rank r sent its chunk_bytes
ChunkBytesSends(r) == Cardinality({n \in 1 .. Len(log[r]) : log[r][n] = "send_chunk_bytes"})

\* the part of the receive buffer of rank P-1 that belongs to rank r
BufferPart(r) == SubSeq(chunk_bytes, TableRow(r) + 1, TableRow(r + 1))

\* C27: in LAS -> LAZ every rank sends its chunk_bytes once; the buffer of
\* rank P-1 is as long as the sum of the gathered chunk counts, the part of
\* rank r starts at the sum of the counts of the ranks below r and is as long
\* as the count of r; once the receive of rank r is done the part holds the
\* array of rank r and keeps it, before that it is unset; after the last
\* receive no entry is unset.
C27_BufferIsConcatenation ==
  /\ \A r \in Rank :
       /\ ChunkBytesSends(r) <= 1
       /\ (ChunkBytesSends(r) = 1) <=> (~laz_in /\ Reached(r, "recv_chunk_bytes"))
       /\ Cardinality({m \in msgs : m.src = r /\ m.tag = 2}) <= 1
  /\ (~laz_in /\ Reached(LastRank, "send_chunk_bytes")) =>
       /\ Len(chunk_bytes) = TableRow(process_count)
       /\ \A r \in Rank :
            /\ Len(BufferPart(r)) = gathered[r]
            /\ r >= recv_i => \A j \in 1 .. gathered[r] : BufferPart(r)[j] = Unset
            /\ (r < recv_i /\ ~(r = LastRank /\ table.written)) =>
                 BufferPart(r) = writer[r].chunk_bytes
       /\ ChunkBytesReceived => \A j \in 1 .. Len(chunk_bytes) : chunk_bytes[j] # Unset

C27_Witness ==
  /\ ~laz_in /\ process_count = 3 /\ K >= process_count /\ ChunkBytesReceived
  /\ pc[LastRank] = "barrier973"
  /\ gathered[2] > gathered[1] /\ Len(chunk_bytes) >= 4
  /\ BufferPart(1) # BufferPart(2)

(* ----------------------- where the chunk table lands ------------------- *)
\* the offsets the chunk table occupies
TableOffsets == table.pos .. (table.pos + TableBytes(table.number_chunks) - 1)

\* C28: the chunk table starts right after the last byte rank P-1 wrote in
\* its final pass; for an input of a supported point format that byte is the
\* termination of its last chunk, the table starts at HeaderEnd plus the byte
\* counts of all ranks, every offset between HeaderEnd and the table holds a
\* compressed byte, none of them a table byte, and no rank wrote a
\* compressed byte into the table.
C28_TableAbutsLastRegion ==
  table.written =>
    /\ table.pos = write_point_offset[LastRank] + FinalBytes(LastRank)
    /\ Who(LastRank, "final") \in written_by[table.pos - 1]
    /\ \A o \in TableOffsets : file[o].kind = "tbl" /\ file[o].k = o - table.pos + 1
    /\ SupportedFormat =>
         /\ table.pos = HeaderEnd + SumSeq(AllBytes, process_count)
         /\ table.pos = IntervalStart(LastRank) + point_bytes_written[LastRank]
         /\ file[table.pos - 1].kind = "term" /\ file[table.pos - 1].last
         /\ \A o \in HeaderEnd .. (table.pos - 1) : o \in DOMAIN file /\ file[o].kind # "tbl"
         /\ \A o \in TableOffsets : Writers(o, {"final"}) = {}
         /\ \A o \in DOMAIN file : o >= HeaderEnd => (file[o].kind = "tbl" <=> o \in TableOffsets)

C28_Witness ==
  /\ table.written /\ ~compatible_down /\ process_count = 3 /\ K >= process_count /\ L > 0
  /\ table.pos = write_point_offset[LastRank] + point_bytes_written[LastRank]
  /\ file[table.pos - 1].pt = npoints - 1

(* ------------------------ opening before writing ----------------------- *)
\* rank r has opened the real output at line 901
Opened(r) == Has(r, "open")

\* C29: while some rank has not yet opened the real output at line 901, no
\* rank has written a byte in its final pass and the file holds no more than
\* what the opens put there; for an input of a supported point format it
\* holds no point byte at all, so that no open truncates one; and every rank
\* in its final pass finds all ranks past their open.
C29_NoPointByteBeforeAllOpen ==
  /\ (\E r \in Rank : ~Opened(r)) =>
       /\ \A o \in DOMAIN written_by : Writers(o, {"final"}) = {}
       /\ SupportedFormat =>
            /\ PointCells = {}
            /\ DOMAIN file \subseteq 0 .. (HeaderEnd - 1)
            /\ \A o \in DOMAIN written_by : Writers(o, {"sizing"}) = {}
  /\ (\E r \in Rank : Reached(r, "offset")) =>
       /\ \A s \in Rank : Opened(s)
       /\ \A o \in 0 .. (HeaderEnd - 1) : o \in DOMAIN file /\ file[o].kind \in {"hdr", "ptr"}

C29_Witness ==
  /\ process_count = 3 /\ ~laz_in /\ K >= process_count
  /\ pc[LastRank] = "barrier902" /\ Opened(LastRank)
  /\ pc[0] = "final_loop" /\ final[0] # << >>
  /\ Writers(HeaderEnd, {"final"}) = {0}

(* ------------------------------ LAZ -> LAS ----------------------------- *)
\* the barriers and collectives rank r has completed, in order
Collectives(r) == SelectSeq(log[r], LAMBDA e : e \in {"barrier", "allgather", "gather"})

IsPrefix(a, b) == Len(a) <= Len(b) /\ SubSeq(b, 1, Len(a)) = a

\* the calls of the exchange that follows the final pass of LAS -> LAZ
TableExchange == {"gather", "send_chunk_bytes", "recv_chunk_bytes", "send_table_pos",
                  "recv_table_pos", "write_chunk_table"}

\* C30: in LAZ -> LAS no rank does the gather, a send or receive of
\* chunk_bytes or of the chunk table position, or writes a chunk table; no
\* rank terminates a chunk; any two ranks have done the same barriers and
\* collectives in the same order as far as both have come, eight barriers
\* with the all-gather after the fourth at the end of main; and a rank leaves
\* the barrier after its final pass for the end of main.
C30_NoTableExchangeBack ==
  laz_in =>
    /\ \A r \in Rank :
         /\ \A n \in 1 .. Len(log[r]) : log[r][n] \notin TableExchange
         /\ pc[r] \notin {"gather", "send_chunk_bytes", "recv_chunk_bytes", "barrier973",
                          "send_table_pos", "recv_table_pos", "barrier982", "write_chunk_table"}
         /\ gathered[r] = Unset
         /\ writer[r].number_chunks = 0 /\ writer[r].chunk_bytes = << >>
         /\ ~writer[r].started
         /\ pc[r] = "exit" =>
              Collectives(r) = <<"barrier", "barrier", "barrier", "barrier", "allgather",
                                 "barrier", "barrier", "barrier", "barrier">>
    /\ \A r, s \in Rank :
         IsPrefix(Collectives(r), Collectives(s)) \/ IsPrefix(Collectives(s), Collectives(r))
    /\ msgs = {} /\ recv_i = 0 /\ number_chunks = << >> /\ chunk_bytes = << >>
    /\ ~table.written
    /\ \A o \in DOMAIN file : file[o].kind \in {"hdr", "rec"}

C30_Witness ==
  /\ laz_in /\ AllDone /\ process_count = 3 /\ npoints >= 2 * process_count
  /\ \A r \in Rank : final[r] # << >> /\ Len(Collectives(r)) = 9

=============================================================================
